---- MODULE Spec2Model ----
(***************************************************************************)
(* Batch ingestion pipeline of the PDF invoice reader:                     *)
(* PdfController.uploadPdfs with its cancel / pause / resume endpoints     *)
(* (src/controllers/pdfController.js).                                     *)
(*                                                                         *)
(* JavaScript runs one handler turn at a time: a turn runs from the        *)
(* resolution of one await to the next await (or to the end of the         *)
(* handler) without interleaving.  Every action below is one such turn.    *)
(*                                                                         *)
(* Spec follows a submission through its windows, pauses and cancels, with *)
(* the outcome of each item task chosen when the task settles.             *)
(* IngestSpec follows the item tasks themselves, await by await, through   *)
(* the Invoice collection and the uploads directory (checkForDuplicates,   *)
(* PdfProcessor.processPdf in src/services/pdfProcessor.js).  DupSpec      *)
(* applies checkForDuplicates to every candidate name over every small     *)
(* collection.  PairSpec runs two small submissions together.              *)
(* PlatformSpec and FieldsSpec apply detectPlatform, extractInvoiceData    *)
(* and the post-processing of the controller to bounded inputs; PathSpec   *)
(* follows the names given to the files in the uploads directory, CpcSpec  *)
(* prices the campaign line items, and DeleteSpec serves a delete request  *)
(* (deletePdf, bulkDeleteInvoices) while a file is on its way through its  *)
(* task.                                                                   *)
(***************************************************************************)
EXTENDS Integers, Sequences, FiniteSets, TLC

\* ------------------------------------------------------------------ bounds
\* number of files in one submission (req.files), and of items after the
\* expansion of its archives (allFiles)
MaxItems == 4
\* number of cancel / pause / resume requests in one behaviour
MaxSignals == 2
\* window size: `const batchSize = 15` in the source, scaled down so that a
\* submission of a few files spans several windows
batchSize == 2

\* the submissions (calls of uploadPdfs); run r is given upload id r
Runs == {1, 2}
\* the submission that is followed alone, through every kind of file
Solo == {1}
\* upload ids a signal can name; id 0 is an id no run was ever given
Ids == Runs \cup {0}
Kinds == {"pdf", "zip"}
Events == {"start", "progress", "complete", "paused", "resumed", "cancelled"}

VARIABLES
    uploadStates,   \* global.uploadStates: upload id -> run state entry
    run,            \* per submission: the locals of uploadPdfs and its position
    sink,           \* notifications emitted through io, per upload id and event
    io,             \* whether a socket server is attached (req.app.get('io'))
    signals,        \* cancel / pause / resume requests made so far
    db,             \* the Invoice collection, in insertion order
    disk,           \* per item: where the bytes of its file are
    item,           \* per item: the locals of its task and its position
    doc,            \* one document on its way through the extraction functions
    paths,          \* per item: the names given to its file in the uploads directory
    del             \* the delete request in progress

\* the state of the invoice store and of the item tasks that work on it
ingestVars == <<db, disk, item, doc, paths, del>>

vars == <<uploadStates, run, sink, io, signals, db, disk, item, doc, paths, del>>

\* ------------------------------------------------------------ run state
\* an absent entry of global.uploadStates
NoState == [live |-> FALSE, isPaused |-> FALSE, isCancelled |-> FALSE,
            processedCount |-> 0, totalFiles |-> 0]

\* the entry stored at submission
NewState == [live |-> TRUE, isPaused |-> FALSE, isCancelled |-> FALSE,
             processedCount |-> 0, totalFiles |-> 0]

\* global.uploadStates[uploadId]?.isCancelled
IsCancelled(st) == st.live /\ st.isCancelled

\* global.uploadStates[uploadId]?.isPaused
IsPaused(st) == st.live /\ st.isPaused

NoSummary == [made |-> FALSE, successful |-> 0, failed |-> 0,
              duplicates |-> 0, totalFiles |-> 0]

\* the locals of uploadPdfs before the handler is called
IdleRun == [pc |-> "idle", files |-> << >>, allFiles |-> << >>,
            task |-> << >>, started |-> << >>, i |-> 0, results |-> << >>,
            duplicates |-> 0, processedCount |-> 0, totalFiles |-> 0,
            waited |-> FALSE, summary |-> NoSummary, res |-> "none",
            orphans |-> FALSE, progress |-> 0]

NoEvents == [e \in Events |-> 0]

\* io.emit(event, ...) guarded by `if (io)`
Emit(c, e, n) == IF c.io THEN [c EXCEPT !.sk[e] = @ + n] ELSE c

\* mutant of Percent: the share of the items still to be processed
PercentRemaining(done, total) == 100 - (200 * done + total) \div (2 * total)

\* Math.round((processedCount / totalFiles) * 100)
Percent(done, total) == (200 * done + total) \div (2 * total)

\* io.emit('upload:progress', { ..., progress }) of n items: rs.progress is
\* the percentage carried by the last notification that has one
EmitProgress(c, n) ==
    IF c.io
    THEN [Emit(c, "progress", n) EXCEPT
            !.rs.progress = Percent(c.rs.processedCount, c.rs.totalFiles)]
    ELSE c

Min(a, b) == IF a < b THEN a ELSE b

\* indices (1-based) of allFiles.slice(i, i + batchSize)
Window(rs) == { k \in 1 .. Len(rs.allFiles) : rs.i < k /\ k <= rs.i + batchSize }

Settled == {"fulfilled", "duplicate", "rejected"}
InFlightPcs == {"waiting", "checking", "processing"}

\* number of entries of seq equal to v
Count(seq, v) == Cardinality({ k \in DOMAIN seq : seq[k] = v })

\* the run's locals, its entry in global.uploadStates, its notifications and
\* the socket server the handler got from req.app.get('io')
Ctx(r) == [rs |-> run[r], st |-> uploadStates[r], sk |-> sink[r], io |-> io]

\* ------------------------------------------------- uploadPdfs, turn by turn
\* results.filter(r => r.status === 'fulfilled' && r.value.status !== 'duplicate').length
Successful(results) == Count(results, "fulfilled")

\* results.filter(r => r.status === 'rejected').length
Failed(results) == Count(results, "rejected")

\* results.map(r => r.status === 'fulfilled' ? r.value : { error: r.reason.message }):
\* the entry pushed for a failed archive is a plain object whose status is
\* 'error' and which has no reason, so reading r.reason.message throws
ResponseThrows(results) == \E k \in DOMAIN results : results[k] = "error"

\* the state entry after `delete global.uploadStates[uploadId]`
DeleteState(st) == NoState

\* mutant of Summary: the run state is deleted inside the `if (io)` block of
\* upload:complete
SummaryDeleteWithSink(c) ==
    LET sm == [made |-> TRUE,
               successful |-> Successful(c.rs.results),
               failed |-> Failed(c.rs.results),
               duplicates |-> c.rs.duplicates,
               totalFiles |-> c.rs.totalFiles]
        c1 == [c EXCEPT !.rs.summary = sm,
                        !.st = IF c.io THEN DeleteState(c.st) ELSE c.st]
        c2 == Emit(c1, "complete", 1)
    IN  [c2 EXCEPT !.rs.pc = "done",
                   !.rs.res = IF ResponseThrows(c.rs.results) THEN "none" ELSE "200"]

\* lines 560-611: counts, delete of the run state, upload:complete, response.
\* When building the response throws, control enters the catch block, whose
\* first statement reads uploadId, a const of the try block that is not in
\* scope there: the handler ends with a ReferenceError and sends no response.
Summary(c) ==
    LET sm == [made |-> TRUE,
               successful |-> Successful(c.rs.results),
               failed |-> Failed(c.rs.results),
               duplicates |-> c.rs.duplicates,
               totalFiles |-> c.rs.totalFiles]
        c1 == [c EXCEPT !.rs.summary = sm, !.st = DeleteState(c.st)]
        c2 == Emit(c1, "complete", 1)
    IN  [c2 EXCEPT !.rs.pc = "done",
                   !.rs.res = IF ResponseThrows(c.rs.results) THEN "none" ELSE "200"]

\* lines 382-394, the synchronous start of one item's task
ItemPrelude(st) ==
    IF IsCancelled(st) THEN "rejected"
    ELSE IF IsPaused(st) THEN "waiting"
    ELSE "checking"

\* mutant of Dispatch: every task yields once before it reads the flags
DispatchDeferred(c) ==
    LET w == Window(c.rs)
    IN  [c EXCEPT
           !.rs.pc = "window",
           !.rs.task = [k \in DOMAIN @ |-> IF k \in w THEN "waiting" ELSE @[k]],
           !.rs.started = [k \in DOMAIN @ |-> IF k \in w THEN @[k] + 1 ELSE @[k]]]

\* lines 379-522: batch.map(async file => ...) runs every task of the window
\* up to its first await
Dispatch(c) ==
    LET w == Window(c.rs)
        n == Cardinality(w)
        b == ItemPrelude(c.st)
        c1 == [c EXCEPT
                 !.rs.pc = "window",
                 !.rs.task = [k \in DOMAIN @ |-> IF k \in w THEN b ELSE @[k]],
                 !.rs.started = [k \in DOMAIN @ |-> IF k \in w THEN @[k] + 1 ELSE @[k]]]
    IN  CASE b = "rejected" ->
               EmitProgress([c1 EXCEPT !.rs.processedCount = @ + n,
                                       !.st.processedCount = c.rs.processedCount + n],
                            n)
          [] b = "waiting" -> c1
          [] OTHER -> EmitProgress(c1, n)

\* mutant of PauseCheck: the cancel check after the pause loop (line 377) is
\* missing
PauseCheckNoBreak(c) ==
    IF IsPaused(c.st) /\ ~IsCancelled(c.st)
    THEN [c EXCEPT !.rs.pc = "pausewait", !.rs.waited = TRUE]
    ELSE Dispatch(c)

\* mutant of PauseCheck: the pause loop (lines 373-375) is missing
PauseCheckNoWait(c) ==
    IF IsCancelled(c.st) THEN Summary(c) ELSE Dispatch(c)

\* lines 373-377: the pause loop and the cancel check that follows it
PauseCheck(c) ==
    IF IsPaused(c.st) /\ ~IsCancelled(c.st)
    THEN [c EXCEPT !.rs.pc = "pausewait", !.rs.waited = TRUE]
    ELSE IF IsCancelled(c.st) THEN Summary(c)
    ELSE Dispatch(c)

\* line 371: the loop condition
LoopTest(c) ==
    IF c.rs.i < Len(c.rs.allFiles) /\ ~IsCancelled(c.st)
    THEN PauseCheck(c)
    ELSE Summary(c)

\* line 371: i += batchSize, then the loop condition
LoopNext(c) == LoopTest([c EXCEPT !.rs.i = @ + batchSize])

\* mutant of AfterExpand: the archives that failed to expand are counted
AfterExpandCountsArchives(c) ==
    LET n == Len(c.rs.allFiles) + Count(c.rs.results, "error")
        c1 == [c EXCEPT !.rs.totalFiles = n, !.st.totalFiles = n]
    IN  IF n = 0
        THEN [c1 EXCEPT !.rs.pc = "done", !.rs.res = "400"]
        ELSE LoopTest(Emit(c1, "progress", 1))

\* lines 354-369: the item count is fixed; a submission without any PDF is
\* answered 400 and leaves its entry in global.uploadStates
AfterExpand(c) ==
    LET n == Len(c.rs.allFiles)
        c1 == [c EXCEPT !.rs.totalFiles = n, !.st.totalFiles = n]
    IN  IF n = 0
        THEN [c1 EXCEPT !.rs.pc = "done", !.rs.res = "400"]
        ELSE LoopTest(Emit(c1, "progress", 1))

\* allFiles.push(...) of n PDF items
PushFiles(rs, n) ==
    [rs EXCEPT !.allFiles = @ \o [k \in 1 .. n |-> "pdf"],
               !.task = @ \o [k \in 1 .. n |-> "pending"],
               !.started = @ \o [k \in 1 .. n |-> 0]]

\* lines 271-352: the loop `for (const file of files)` from the first file
\* not yet visited (the head of rs.files) on, up to the next await (the
\* expansion of an archive) or to the end of the loop
RECURSIVE ExpandFrom(_)
ExpandFrom(c) ==
    IF c.rs.files = << >> \/ IsCancelled(c.st)
    THEN AfterExpand(c)
    ELSE IF Head(c.rs.files) = "zip"
    THEN Emit([c EXCEPT !.rs.pc = "expanding"], "progress", 1)
    ELSE ExpandFrom([c EXCEPT !.rs = PushFiles([@ EXCEPT !.files = Tail(@)], 1)])

\* number of directly submitted PDFs that follow the archive being expanded
PdfsAfter(rs) == Count(Tail(rs.files), "pdf")

\* mutant of EmitStart: the submission announces nothing
EmitStartOmitted(c) == c

\* lines 261-268: upload:start carries the upload id to the listeners
EmitStart(c) == Emit(c, "start", 1)

\* lines 250-293: creation of the run state, upload:start, and the loop over
\* the files up to its first await
SubmitTurn(c, files) ==
    ExpandFrom(EmitStart([c EXCEPT !.rs.files = files, !.st = NewState]))

\* mutant of uploadPdfs: the run state is created and announced before the
\* submission is validated
uploadPdfsLateValidation(r, files) ==
    /\ run[r].pc = "idle"
    /\ \A q \in Runs : q < r => run[q].pc # "idle"
    /\ LET c0 == [rs |-> [run[r] EXCEPT !.files = files],
                  st |-> NewState,
                  sk |-> sink[r],
                       io |-> io]
           c == IF Len(files) = 0
                THEN [EmitStart(c0) EXCEPT !.rs.pc = "done", !.rs.res = "400"]
                ELSE ExpandFrom(EmitStart(c0))
       IN  /\ run' = [run EXCEPT ![r] = c.rs]
           /\ uploadStates' = [uploadStates EXCEPT ![r] = c.st]
           /\ sink' = [sink EXCEPT ![r] = c.sk]
    /\ UNCHANGED <<io, signals, ingestVars>>

\* lines 230-293: validation, creation of the run state, upload:start
uploadPdfs(r, files) ==
    /\ run[r].pc = "idle"
    /\ \A q \in Runs : q < r => run[q].pc # "idle"
    /\ IF Len(files) = 0
       THEN /\ run' = [run EXCEPT ![r].pc = "done", ![r].res = "400"]
            /\ UNCHANGED <<uploadStates, sink>>
       ELSE LET c == SubmitTurn(Ctx(r), files)
            IN  /\ run' = [run EXCEPT ![r] = c.rs]
                /\ uploadStates' = [uploadStates EXCEPT ![r] = c.st]
                /\ sink' = [sink EXCEPT ![r] = c.sk]
    /\ UNCHANGED <<io, signals, ingestVars>>

\* the locals, the state entry and the notifications after a turn of run r
Commit(r, c) ==
    /\ run' = [run EXCEPT ![r] = c.rs]
    /\ uploadStates' = [uploadStates EXCEPT ![r] = c.st]
    /\ sink' = [sink EXCEPT ![r] = c.sk]
    /\ UNCHANGED <<io, signals, ingestVars>>

\* lines 193-228 and 293-345: extractPdfsFromZip returns the n PDFs it has
\* written to the uploads directory, or throws after it has written n of them,
\* which stay there (rs.orphans: some file of a failed archive is left)
ZipTurn(c, ok, n) ==
    LET c1 == IF ok
              THEN [c EXCEPT !.rs = PushFiles(@, n)]
              ELSE [c EXCEPT !.rs.results = Append(@, "error"),
                             !.rs.orphans = @ \/ n > 0]
        c2 == Emit([c1 EXCEPT !.rs.files = Tail(@)], "progress", 1)
    IN  ExpandFrom(c2)

\* the expansion of the archive at the head of rs.files has returned
extractPdfsFromZip(r, ok, n) ==
    /\ run[r].pc = "expanding"
    /\ Len(run[r].allFiles) + (IF ok THEN n ELSE 0) + PdfsAfter(run[r]) <= MaxItems
    /\ Commit(r, ZipTurn(Ctx(r), ok, n))

\* lines 396-521: the continuation of item k's task after its pending await
ItemTurn(c, k, dup, ok) ==
    LET t == c.rs.task[k]
        settle(o) == EmitProgress([c EXCEPT !.rs.task[k] = o,
                                            !.rs.processedCount = @ + 1,
                                            !.st.processedCount = c.rs.processedCount + 1],
                                  1)
    IN  CASE t = "waiting" ->
               IF IsPaused(c.st) /\ ~IsCancelled(c.st) THEN c
               ELSE IF IsCancelled(c.st) THEN settle("rejected")
               ELSE EmitProgress([c EXCEPT !.rs.task[k] = "checking"], 1)
          [] t = "checking" ->
               IF dup THEN settle("duplicate")
               ELSE [c EXCEPT !.rs.task[k] = "processing"]
          [] OTHER ->
               IF ok THEN settle("fulfilled") ELSE settle("rejected")

\* mutant of processItem: every task of a window writes the count it read
\* when the window was dispatched, plus one
processItemLostUpdate(r, k, dup, ok) ==
    /\ run[r].pc = "window"
    /\ k \in DOMAIN run[r].task
    /\ run[r].task[k] \in InFlightPcs
    /\ LET c == Ctx(r)
           t == c.rs.task[k]
           settle(o) == EmitProgress([c EXCEPT !.rs.task[k] = o,
                                               !.rs.processedCount = c.rs.i + 1,
                                               !.st.processedCount = c.rs.i + 1],
                                     1)
       IN  Commit(r,
             CASE t = "waiting" ->
                    IF IsPaused(c.st) /\ ~IsCancelled(c.st) THEN c
                    ELSE IF IsCancelled(c.st) THEN settle("rejected")
                    ELSE EmitProgress([c EXCEPT !.rs.task[k] = "checking"], 1)
               [] t = "checking" ->
                    IF dup THEN settle("duplicate")
                    ELSE [c EXCEPT !.rs.task[k] = "processing"]
               [] OTHER ->
                    IF ok THEN settle("fulfilled") ELSE settle("rejected"))

\* one turn of the task of item k of run r
processItem(r, k, dup, ok) ==
    /\ run[r].pc = "window"
    /\ k \in DOMAIN run[r].task
    /\ run[r].task[k] \in InFlightPcs
    /\ Commit(r, ItemTurn(Ctx(r), k, dup, ok))

\* mutant of AllSettled: the window is taken as settled when its first task
\* settles (Promise.race in place of Promise.allSettled)
AnySettled(rs) == \E k \in Window(rs) : rs.task[k] \in Settled

\* Promise.allSettled(batchPromises) resolves
AllSettled(rs) == \A k \in Window(rs) : rs.task[k] \in Settled

\* lines 524-558: the window's results are collected; then the delay between
\* windows, or the end of the loop
WindowTurn(c) ==
    LET lo == c.rs.i + 1
        hi == Min(c.rs.i + batchSize, Len(c.rs.allFiles))
        batchResults == [j \in 1 .. (hi - lo + 1) |-> c.rs.task[lo + j - 1]]
        c1 == [c EXCEPT !.rs.duplicates = @ + Count(batchResults, "duplicate"),
                        !.rs.results = @ \o batchResults]
    IN  IF c.rs.i + batchSize < Len(c.rs.allFiles) /\ ~IsCancelled(c.st)
        THEN [c1 EXCEPT !.rs.pc = "delay"]
        ELSE LoopNext(c1)

\* Promise.allSettled of the window has resolved
windowSettled(r) ==
    /\ run[r].pc = "window"
    /\ AllSettled(run[r])
    /\ Commit(r, WindowTurn(Ctx(r)))

\* line 556: the delay between two windows has elapsed
delayElapsed(r) ==
    /\ run[r].pc = "delay"
    /\ Commit(r, LoopNext(Ctx(r)))

\* line 374: the 100 ms timer of the pause loop has fired
pausePoll(r) ==
    /\ run[r].pc = "pausewait"
    /\ Commit(r, PauseCheck(Ctx(r)))

\* ------------------------------------------------ cancel / pause / resume
\* the notification of a signal endpoint
Notify(id, e) == [sink EXCEPT ![id][e] = IF io THEN @ + 1 ELSE @]

\* mutant of cancelUpload: the request cancels every run in progress
cancelUploadAll(id) ==
    /\ signals < MaxSignals
    /\ signals' = signals + 1
    /\ IF uploadStates[id].live
       THEN /\ uploadStates' = [q \in Ids |->
                                  IF uploadStates[q].live
                                  THEN [uploadStates[q] EXCEPT !.isCancelled = TRUE]
                                  ELSE uploadStates[q]]
            /\ sink' = Notify(id, "cancelled")
       ELSE UNCHANGED <<uploadStates, sink>>
    /\ UNCHANGED <<run, io, ingestVars>>

\* lines 1089-1115
cancelUpload(id) ==
    /\ signals < MaxSignals
    /\ signals' = signals + 1
    /\ IF uploadStates[id].live
       THEN /\ uploadStates' = [uploadStates EXCEPT ![id].isCancelled = TRUE]
            /\ sink' = Notify(id, "cancelled")
       ELSE UNCHANGED <<uploadStates, sink>>
    /\ UNCHANGED <<run, io, ingestVars>>

\* lines 1118-1144
pauseUpload(id) ==
    /\ signals < MaxSignals
    /\ signals' = signals + 1
    /\ IF uploadStates[id].live
       THEN /\ uploadStates' = [uploadStates EXCEPT ![id].isPaused = TRUE]
            /\ sink' = Notify(id, "paused")
       ELSE UNCHANGED <<uploadStates, sink>>
    /\ UNCHANGED <<run, io, ingestVars>>

\* mutant of resumeUpload: resume also clears the cancelled flag
resumeUploadUncancels(id) ==
    /\ signals < MaxSignals
    /\ signals' = signals + 1
    /\ IF uploadStates[id].live
       THEN /\ uploadStates' = [uploadStates EXCEPT ![id].isPaused = FALSE,
                                                    ![id].isCancelled = FALSE]
            /\ sink' = Notify(id, "resumed")
       ELSE UNCHANGED <<uploadStates, sink>>
    /\ UNCHANGED <<run, io, ingestVars>>

\* lines 1147-1173
resumeUpload(id) ==
    /\ signals < MaxSignals
    /\ signals' = signals + 1
    /\ IF uploadStates[id].live
       THEN /\ uploadStates' = [uploadStates EXCEPT ![id].isPaused = FALSE]
            /\ sink' = Notify(id, "resumed")
       ELSE UNCHANGED <<uploadStates, sink>>
    /\ UNCHANGED <<run, io, ingestVars>>

\* ------------------------------------------------ the items and the store
\* The task of one item (lines 381-522) followed through the Invoice
\* collection and the uploads directory, await by await.
Items == {1, 2}
Digests == {"d1", "d2"}
\* a record without fileHash
NoHash == "none"

\* file names, character by character
Names == { <<"a", ".", "p">>, <<"A", ".", "p">>, <<"a", ".", "q">>,
           <<"b", ".", "p">>, <<"a">>, <<"A">>,
           <<"a", ".", "b">>, <<"a", "a", "b">>,
           <<"(", "a", ")", ".", "p">>, <<"(", "a", ")", ".", "q">>,
           <<"(", "a", ".", "p">> }

\* the replies of the language model: a JSON object, text that is not JSON,
\* the JSON literal null, or a rejected call
LlmReplies == {"json", "garbage", "null", "throws"}

NoItem == [pc |-> "absent", batch |-> 0, name |-> << >>, digest |-> NoHash,
           q |-> 0, verdict |-> "none", checkError |-> "none", rec |-> 0,
           data |-> "none", err |-> "none", outcome |-> "none"]

\* the task of a file of batch b at its first await, inside checkForDuplicates
NewItem(b, n, d) == [NoItem EXCEPT !.pc = "lookup", !.batch = b, !.name = n,
                                   !.digest = d, !.q = 1]

\* new Invoice({ fileName, filePath: file.path, platform: 'other', status: 'processing' })
NewInvoice(it) == [fileName |-> it.name, filePath |-> "temp", fileHash |-> NoHash,
                   status |-> "processing", errorMessage |-> "none"]

\* the case folding of the regular expression flag 'i'
Lower(ch) == IF ch = "A" THEN "a" ELSE ch

\* position of the last "." of s, 0 when there is none
LastDot(s) ==
    LET dots == { k \in DOMAIN s : s[k] = "." }
    IN  IF dots = {} THEN 0 ELSE CHOOSE k \in dots : \A j \in dots : j <= k

\* originalName.replace(/\.[^/.]+$/, "")
nameWithoutExt(s) ==
    LET d == LastDot(s)
    IN  IF d > 0 /\ d < Len(s) THEN SubSeq(s, 1, d - 1) ELSE s

\* "(" minus ")" among the first k characters of pat
Depth(pat, k) ==
    Cardinality({ j \in 1 .. k : pat[j] = "(" }) - Cardinality({ j \in 1 .. k : pat[j] = ")" })

\* new RegExp(pat) does not throw: the parentheses of pat are matched
Balanced(pat) ==
    /\ \A k \in DOMAIN pat : Depth(pat, k) >= 0
    /\ Depth(pat, Len(pat)) = 0

\* the characters of pat that consume input: the parentheses only group
Atoms(pat) == SelectSeq(pat, LAMBDA ch : ch \notin {"(", ")"})

\* new RegExp(`^${pat}$`, 'i') matches s: "." matches any character, every
\* other character matches itself in either case
MatchCI(pat, s) ==
    LET a == Atoms(pat)
    IN  /\ Len(a) = Len(s)
        /\ \A k \in DOMAIN a : a[k] = "." \/ Lower(a[k]) = Lower(s[k])

\* new RegExp(`^${stem}\\.[^/.]+$`, 'i') matches s
MatchStem(stem, s) ==
    LET n == Len(Atoms(stem))
    IN  /\ Len(s) >= n + 2
        /\ MatchCI(stem, SubSeq(s, 1, n))
        /\ s[n + 1] = "."
        /\ \A k \in (n + 2) .. Len(s) : s[k] # "."

\* lines 141-176: the verdict of the q-th lookup
DupType(q) ==
    CASE q = 1 -> "content"
      [] q = 2 -> "filename"
      [] q = 3 -> "similar_name"
      [] OTHER -> "case_insensitive"

\* mutant of Hit: the lookups consider completed records only
HitCompletedOnly(q, name, digest, records) ==
    \E k \in DOMAIN records :
        /\ records[k].status = "completed"
        /\ CASE q = 1 -> records[k].fileHash = digest
             [] q = 2 -> records[k].fileName = name
             [] q = 3 -> MatchStem(nameWithoutExt(name), records[k].fileName)
             [] OTHER -> MatchCI(name, records[k].fileName)

\* lines 141-176: the q-th Invoice.findOne of checkForDuplicates finds a record
Hit(q, name, digest, records) ==
    \E k \in DOMAIN records :
        CASE q = 1 -> records[k].fileHash = digest
          [] q = 2 -> records[k].fileName = name
          [] q = 3 -> MatchStem(nameWithoutExt(name), records[k].fileName)
          [] OTHER -> MatchCI(name, records[k].fileName)

\* lines 161, 173: building the regular expression of the q-th lookup throws
Throws(q, name) ==
    \/ q = 3 /\ ~Balanced(nameWithoutExt(name))
    \/ q = 4 /\ ~Balanced(name)

\* the database, the file and the locals of item i
ItemCtx(i) == [db |-> db, fl |-> disk[i], it |-> item[i]]

\* the task's promise settles
Settle(x, o) == [x EXCEPT !.it.pc = "settled", !.it.outcome = o]

\* lines 494-521: the catch block of the task deletes the temporary file if it
\* is still at file.path, and rethrows
ItemCatch(x, e) ==
    Settle([x EXCEPT !.fl = IF @ = "temp" THEN "gone" ELSE @, !.it.err = e],
           "rejected")

\* lines 410-437: the temporary file of a duplicate is deleted; when the
\* unlink throws, the one of the catch block throws as well and is logged
DuplicateFound(x, type, unlinkOk) ==
    IF unlinkOk
    THEN Settle([x EXCEPT !.fl = "gone", !.it.verdict = type], "duplicate")
    ELSE Settle([x EXCEPT !.it.verdict = type, !.it.err = "unlink"], "rejected")

\* mutant of FailOpen: a failed lookup fails the item
FailClosed(x, e) == ItemCatch([x EXCEPT !.it.checkError = e], e)

\* lines 184-189: the catch block of checkForDuplicates returns
\* { isDuplicate: false, error }, and the task goes on at line 440
FailOpen(x, e) == [x EXCEPT !.it.checkError = e, !.it.pc = "hashing"]

\* line 183: return { isDuplicate: false }
NotDuplicate(x) == [x EXCEPT !.it.pc = "hashing"]

\* items of an earlier batch have all settled
EarlierBatchesDone(i) ==
    \A j \in Items :
        (item[j].pc # "absent" /\ item[j].batch < item[i].batch) => item[j].pc = "settled"

\* the database, the file and the locals of item i after one of its turns
IngestCommit(i, x) ==
    /\ db' = x.db
    /\ disk' = [disk EXCEPT ![i] = x.fl]
    /\ item' = [item EXCEPT ![i] = x.it]
    /\ UNCHANGED <<uploadStates, run, sink, io, signals, doc, paths, del>>

\* lines 132-190 and 408-437: one lookup of checkForDuplicates returns (the
\* first one follows the digest of the file); fails: the lookup rejects
checkForDuplicates(i, fails, unlinkOk) ==
    /\ item[i].pc = "lookup"
    /\ EarlierBatchesDone(i)
    /\ LET x == ItemCtx(i)
           q == x.it.q
       IN  IngestCommit(i,
             IF fails THEN FailOpen(x, "storage")
             ELSE IF Throws(q, x.it.name) THEN FailOpen(x, "regex")
             ELSE IF Hit(q, x.it.name, x.it.digest, x.db)
             THEN DuplicateFound(x, DupType(q), unlinkOk)
             ELSE IF q < 4 THEN [x EXCEPT !.it.q = q + 1]
             ELSE NotDuplicate(x))

\* line 440: the digest of the file is computed; processPdf is called and
\* issues the first save of its new document
calculateFileHash(i, ok) ==
    /\ item[i].pc = "hashing"
    /\ LET x == ItemCtx(i)
       IN  IngestCommit(i, IF ok THEN [x EXCEPT !.it.pc = "insert"]
                           ELSE ItemCatch(x, "hash"))

\* mutant of extractInvoiceData: a rejected call of the model is not caught
extractInvoiceDataUncaught(llm) ==
    CASE llm = "json" -> "llm"
      [] llm = "throws" -> "throws"
      [] OTHER -> "fallback"

\* pdfProcessor.js lines 92-113: the data comes from the reply of the model
\* when it parses to an object, and from basicExtraction otherwise
extractInvoiceData(llm) ==
    CASE llm = "json" -> "llm"
      [] OTHER -> "fallback"

\* pdfProcessor.js lines 62-66: the catch block of processPdf marks the
\* document failed and saves it
Fail(x, e) == [x EXCEPT !.it.err = e, !.it.pc = "failsave"]

\* mutant of MarkFailed: the failure is written to the first record that has
\* the name of the file
MarkFailedByName(x) ==
    LET hits == { k \in DOMAIN x.db : x.db[k].fileName = x.it.name }
    IN  IF hits = {}
        THEN [x EXCEPT !.db = Append(@, [NewInvoice(x.it) EXCEPT
                                            !.status = "failed",
                                            !.errorMessage = x.it.err]),
                       !.it.rec = Len(x.db) + 1]
        ELSE LET k == CHOOSE h \in hits : \A j \in hits : h <= j
             IN  [x EXCEPT !.db[k].status = "failed",
                           !.db[k].errorMessage = x.it.err]

\* the save of the catch block is stored: the document is inserted if its
\* first save had failed, updated otherwise
MarkFailed(x) ==
    IF x.it.rec = 0
    THEN [x EXCEPT !.db = Append(@, [NewInvoice(x.it) EXCEPT
                                        !.status = "failed",
                                        !.errorMessage = x.it.err]),
                   !.it.rec = Len(x.db) + 1]
    ELSE [x EXCEPT !.db[x.it.rec].status = "failed",
                   !.db[x.it.rec].errorMessage = x.it.err]

\* pdfProcessor.js lines 22-72: processPdf, one await at a time
processPdf(i, ok, llm) ==
    /\ item[i].pc \in {"insert", "parse", "savetext", "extract", "savedone", "failsave"}
    /\ LET x == ItemCtx(i)
           pc == x.it.pc
           dta == extractInvoiceData(llm)
       IN  IngestCommit(i,
             CASE pc = "insert" ->
                    IF ok THEN [x EXCEPT !.db = Append(@, NewInvoice(x.it)),
                                         !.it.rec = Len(x.db) + 1,
                                         !.it.pc = "parse"]
                    ELSE Fail(x, "save")
               [] pc = "parse" ->
                    IF ok THEN [x EXCEPT !.it.pc = "savetext"] ELSE Fail(x, "parse")
               [] pc = "savetext" ->
                    IF ok THEN [x EXCEPT !.it.pc = "extract"] ELSE Fail(x, "save")
               [] pc = "extract" ->
                    IF dta = "throws" THEN Fail(x, "llm")
                    ELSE [x EXCEPT !.it.data = dta, !.it.pc = "savedone"]
               [] pc = "savedone" ->
                    IF ok THEN [x EXCEPT !.db[x.it.rec].status = "completed",
                                         !.it.pc = "moving"]
                    ELSE Fail(x, "save")
               [] OTHER ->
                    IF ok THEN ItemCatch(MarkFailed(x), x.it.err)
                    ELSE ItemCatch(x, "failsave"))

\* mutant of updateOne: the digest is not stored with the path
updateOnePathOnly(records, name, digest) ==
    LET hits == { k \in DOMAIN records : records[k].fileName = name }
    IN  IF hits = {} THEN records
        ELSE LET k == CHOOSE h \in hits : \A j \in hits : h <= j
             IN  [records EXCEPT ![k].filePath = "final"]

\* mutant of updateOne: the collection refuses a digest that another record
\* carries already
updateOneUniqueHash(records, name, digest) ==
    LET hits == { k \in DOMAIN records : records[k].fileName = name }
    IN  IF hits = {} \/ \E k \in DOMAIN records : records[k].fileHash = digest
        THEN records
        ELSE LET k == CHOOSE h \in hits : \A j \in hits : h <= j
             IN  [records EXCEPT ![k].filePath = "final", ![k].fileHash = digest]

\* lines 456-464: Invoice.updateOne({ fileName }, { $set: { filePath, fileHash } })
\* changes the first record that has the name
updateOne(records, name, digest) ==
    LET hits == { k \in DOMAIN records : records[k].fileName = name }
    IN  IF hits = {} THEN records
        ELSE LET k == CHOOSE h \in hits : \A j \in hits : h <= j
             IN  [records EXCEPT ![k].filePath = "final", ![k].fileHash = digest]

\* lines 443-492: the file is renamed to its permanent name, then the record
\* is given the path and the digest
storeFile(i, ok) ==
    /\ item[i].pc \in {"moving", "update"}
    /\ LET x == ItemCtx(i)
       IN  IngestCommit(i,
             IF x.it.pc = "moving"
             THEN IF ok THEN [x EXCEPT !.fl = "final", !.it.pc = "update"]
                  ELSE ItemCatch(x, "rename")
             ELSE IF ok
                  THEN Settle([x EXCEPT !.db = updateOne(@, x.it.name, x.it.digest)],
                              "fulfilled")
                  ELSE ItemCatch(x, "update"))

\* ------------------------------------------------ the extraction functions
\* a field of extracted data: absent (undefined), null, a string that parses
\* neither as a date nor as a number, a string that parses as a date or as
\* the number v, a number v (in cents), or a Date
Absent == [kind |-> "absent", v |-> 0]
Null == [kind |-> "null", v |-> 0]
Str == [kind |-> "string", v |-> 0]
DateStr == [kind |-> "datestring", v |-> 0]
DateVal == [kind |-> "date", v |-> 0]
NumStr(v) == [kind |-> "numstring", v |-> v]
Num(v) == [kind |-> "number", v |-> v]

\* amounts, in cents
Cents == {0, 18000, 82000, 100000}

\* campaigns: how many, and the sum of their amounts
NoCampaigns == [n |-> 0, sum |-> 0]
CampaignLists == {NoCampaigns} \cup { [n |-> 1, sum |-> c] : c \in Cents }

NoData == [invoiceDate |-> Absent, periodStart |-> Absent, subtotal |-> Absent,
           taxAmount |-> Absent, totalAmount |-> Absent, campaigns |-> NoCampaigns]

\* no document is being extracted
NoDoc == [pc |-> "none", text |-> << >>, platform |-> "none", reply |-> "none",
          parsed |-> NoData, basic |-> NoData, data |-> NoData, out |-> NoData,
          line |-> [path |-> "none", amount |-> Absent, clicks |-> Absent,
                    cpc |-> Absent]]

\* pdfProcessor.js lines 295-298: toNumber
toNumber(val) == IF val.kind \in {"number", "numstring"} THEN Num(val.v) ELSE Null

\* pdfProcessor.js lines 178-179:
\* (d && !isNaN(Date.parse(d))) ? new Date(d) : null
toDate(val) == IF val.kind \in {"datestring", "date"} THEN DateVal ELSE Null

\* pdfProcessor.js lines 175-228: validateAndFormatData; textCampaigns is
\* what extractCampaigns finds in the text
validateAndFormatData(data, platform, textCampaigns) ==
    [invoiceDate |-> toDate(data.invoiceDate),
     periodStart |-> IF data.periodStart.kind \in {"absent", "null"} THEN Absent
                     ELSE toDate(data.periodStart),
     subtotal |-> toNumber(data.subtotal),
     taxAmount |-> toNumber(data.taxAmount),
     totalAmount |-> toNumber(data.totalAmount),
     campaigns |-> IF data.campaigns.n > 0 THEN data.campaigns
                   ELSE IF platform = "google_ads" THEN textCampaigns
                   ELSE NoCampaigns]

\* pdfProcessor.js lines 230-252: what basicExtraction can return: for
\* google_ads the matched date string as it stands and parsed amounts, for the
\* other platforms a total only
BasicResults(platform) ==
    IF platform = "google_ads"
    THEN [invoiceDate : {Null, Str, DateStr}, periodStart : {Absent},
          subtotal : {Null} \cup { Num(c) : c \in Cents },
          taxAmount : {Null} \cup { Num(c) : c \in Cents },
          totalAmount : {Null} \cup { Num(c) : c \in Cents },
          campaigns : CampaignLists]
    ELSE [invoiceDate : {Absent}, periodStart : {Absent}, subtotal : {Absent},
          taxAmount : {Absent},
          totalAmount : {Null} \cup { Num(c) : c \in Cents },
          campaigns : {NoCampaigns}]

\* the objects the reply of the model can parse to
RawAmounts == {Absent, Null, Str, NumStr(18000)} \cup { Num(c) : c \in Cents }
ParsedReplies ==
    [invoiceDate : {Absent, Null, Str, DateStr}, periodStart : {Absent, Str, DateStr},
     subtotal : RawAmounts, taxAmount : RawAmounts, totalAmount : RawAmounts,
     campaigns : CampaignLists]

\* pdfProcessor.js lines 92-113: the fields extractInvoiceData returns: the
\* validated reply, the validated fallback when the reply is not JSON, and
\* the fallback as it stands when the call or the validation throws
extractFields(reply, parsed, basic, platform) ==
    CASE reply = "json" -> validateAndFormatData(parsed, platform, basic.campaigns)
      [] reply = "garbage" -> validateAndFormatData(basic, platform, basic.campaigns)
      [] OTHER -> basic

\* JavaScript truthiness of a field
Truthy(val) ==
    \/ val.kind \in {"string", "datestring", "numstring", "date"}
    \/ val.kind = "number" /\ val.v # 0

\* pdfController.js lines 532-547: the post-processing of the extracted data
\* of a fulfilled result
postProcess(data) ==
    LET d1 == IF ~Truthy(data.subtotal) /\ Truthy(data.totalAmount) /\ Truthy(data.taxAmount)
              THEN [data EXCEPT !.subtotal = Num(data.totalAmount.v - data.taxAmount.v)]
              ELSE data
        d2 == IF ~Truthy(d1.totalAmount) /\ Truthy(d1.subtotal) /\ Truthy(d1.taxAmount)
              THEN [d1 EXCEPT !.totalAmount = Num(d1.subtotal.v + d1.taxAmount.v)]
              ELSE d1
        d3 == IF (~Truthy(d2.subtotal) \/ d2.subtotal = Num(0)) /\ d2.campaigns.n > 0
              THEN [d2 EXCEPT !.subtotal = Num(d2.campaigns.sum)]
              ELSE d2
    IN  d3

\* a / k rounded to the nearest integer, halves away from zero: toFixed(2) of
\* a quotient of amounts kept in cents
Round(a, k) ==
    LET abs(x) == IF x < 0 THEN 0 - x ELSE x
        q == (2 * abs(a) + abs(k)) \div (2 * abs(k))
    IN  IF (a < 0) = (k < 0) THEN q ELSE 0 - q

\* the campaign line items: those of a parsed reply have any amount and any
\* number of clicks or none, those matched in the text (pdfProcessor.js line
\* 256: (\d+) Clicks, [\d,]+\.\d{2}) have digits only
LineItems ==
    [path : {"validated"},
     amount : {Absent, Null} \cup { Num(a) : a \in {-500, 0, 250, 999, 1000} },
     clicks : {Absent, Null} \cup { Num(k) : k \in {-2, 0, 3, 4} },
     cpc : {Absent}]
    \cup
    [path : {"pattern"},
     amount : { Num(a) : a \in {0, 250, 999, 1000} },
     clicks : { Num(k) : k \in {0, 3, 4, 7} },
     cpc : {Absent}]

\* pdfProcessor.js lines 205-210 (validateAndFormatData, google_ads) and line
\* 266 (extractCampaigns): the cost per click of a line item
cpc(line) ==
    LET amount == toNumber(line.amount)
        clicks == toNumber(line.clicks)
    IN  IF line.path = "validated"
        THEN IF Truthy(clicks) /\ Truthy(amount)
             THEN Num(Round(amount.v, clicks.v)) ELSE Null
        ELSE IF clicks.v > 0 THEN Num(Round(amount.v, clicks.v)) ELSE Null

\* one campaign line item is given its cost per click
priceCampaign ==
    /\ doc.pc = "line"
    /\ doc' = [doc EXCEPT !.pc = "priced", !.line.cpc = cpc(doc.line)]
    /\ UNCHANGED <<uploadStates, run, sink, io, signals, db, disk, item, paths, del>>

\* pdfProcessor.js line 49: extractInvoiceData returns the fields
extract ==
    /\ doc.pc = "reply"
    /\ doc' = [doc EXCEPT
                 !.pc = "extracted",
                 !.data = extractFields(doc.reply, doc.parsed, doc.basic, doc.platform),
                 !.parsed = NoData,
                 !.basic = NoData]
    /\ UNCHANGED <<uploadStates, run, sink, io, signals, db, disk, item, paths, del>>

\* pdfController.js lines 527-550: the result of the item is post-processed
reconcile ==
    /\ doc.pc = "extracted"
    /\ doc' = [doc EXCEPT !.pc = "posted", !.out = postProcess(doc.data)]
    /\ UNCHANGED <<uploadStates, run, sink, io, signals, db, disk, item, paths, del>>

\* words of invoice texts, character by character
Words == { <<"G", "o", "o", "g", "l", "e">>,
           <<"A", "d", "s">>,
           <<"a", "d", "s">>,
           <<"i", "n", "v", "o", "i", "c", "e">>,
           <<"M", "e", "t", "a">>,
           <<"a", "d", "v", "e", "r", "t", "i", "s", "i", "n", "g">>,
           <<"F", "a", "c", "e", "b", "o", "o", "k">>,
           <<"I", "n", "s", "t", "a", "g", "r", "a", "m">>,
           <<"m", "e", "t", "a", "d", "a", "t", "a">> }

\* text.toLowerCase(), for one character
toLowerCase(ch) ==
    CASE ch = "A" -> "a"
      [] ch = "F" -> "f"
      [] ch = "G" -> "g"
      [] ch = "I" -> "i"
      [] ch = "M" -> "m"
      [] OTHER -> ch

\* the words joined by single spaces
RECURSIVE Join(_)
Join(ws) ==
    IF ws = << >> THEN << >>
    ELSE IF Len(ws) = 1 THEN ws[1]
    ELSE ws[1] \o <<" ">> \o Join(Tail(ws))

\* lowercaseText.includes(phrase)
Includes(text, phrase) ==
    \E o \in 0 .. (Len(text) - Len(phrase)) :
        \A k \in 1 .. Len(phrase) : toLowerCase(text[o + k]) = phrase[k]

GoogleAds == <<"g", "o", "o", "g", "l", "e", " ", "a", "d", "s">>
GoogleInvoice == <<"g", "o", "o", "g", "l", "e", " ", "i", "n", "v", "o", "i", "c", "e">>
MetaWord == <<"m", "e", "t", "a">>
AdsWord == <<"a", "d", "s">>
Advertising == <<"a", "d", "v", "e", "r", "t", "i", "s", "i", "n", "g">>
FacebookAds == <<"f", "a", "c", "e", "b", "o", "o", "k", " ", "a", "d", "s">>
InstagramAds == <<"i", "n", "s", "t", "a", "g", "r", "a", "m", " ", "a", "d", "s">>

\* mutant of detectPlatform: the rule of meta is tried before the rule of
\* google
detectPlatformMetaFirst(text) ==
    IF Includes(text, MetaWord) /\ (Includes(text, AdsWord) \/ Includes(text, Advertising))
    THEN "meta_ads"
    ELSE IF Includes(text, GoogleAds) \/ Includes(text, GoogleInvoice) THEN "google_ads"
    ELSE IF Includes(text, FacebookAds) THEN "facebook_ads"
    ELSE IF Includes(text, InstagramAds) THEN "instagram_ads"
    ELSE "other"

\* pdfProcessor.js lines 74-90
detectPlatform(text) ==
    IF Includes(text, GoogleAds) \/ Includes(text, GoogleInvoice) THEN "google_ads"
    ELSE IF Includes(text, MetaWord) /\ (Includes(text, AdsWord) \/ Includes(text, Advertising))
    THEN "meta_ads"
    ELSE IF Includes(text, FacebookAds) THEN "facebook_ads"
    ELSE IF Includes(text, InstagramAds) THEN "instagram_ads"
    ELSE "other"

\* the store, the item tasks and the run are idle while a document is extracted
\* ------------------------------------------------ the names of the files
\* Math.floor(Math.random() * 10000), over a few values
Prefixes == {0, 1, 2}

\* no name was given yet
NoPath == [prefix |-> -1, name |-> << >>]

\* `${prefix}-${originalname}` in the uploads directory
UniqueName(prefix, name) == [prefix |-> prefix, name |-> name]

NoPaths == [i \in Items |-> [tmp |-> NoPath, final |-> NoPath]]

\* lines 22-25 (and line 203 for the entry of an archive): the file of item
\* i is written under a name made of a random prefix and its original name
filename(i, name, prefix) ==
    /\ paths[i].tmp = NoPath
    /\ paths' = [paths EXCEPT ![i].tmp = UniqueName(prefix, name)]
    /\ UNCHANGED <<uploadStates, run, sink, io, signals, db, disk, item, doc, del>>

\* lines 443-454: the file is renamed to a second name made the same way,
\* in the same directory
finalFileName(i, prefix) ==
    /\ paths[i].tmp # NoPath
    /\ paths[i].final = NoPath
    /\ paths' = [paths EXCEPT ![i].final = UniqueName(prefix, paths[i].tmp.name)]
    /\ UNCHANGED <<uploadStates, run, sink, io, signals, db, disk, item, doc, del>>

\* ------------------------------------------------ the delete endpoints
\* a record that was deleted: its place in the collection stays, so that the
\* documents held by the tasks keep their index
Deleted == [fileName |-> << >>, filePath |-> "none", fileHash |-> NoHash,
            status |-> "deleted", errorMessage |-> "none"]

\* the body of a bulk-delete request; "" stands for a field that is missing
Requests == [confirm : {"", "DELETE", "delete"},
             timePeriod : {"", "1_day", "all", "10_years"},
             platform : {"", "all", "google_ads", "tiktok"}]

\* no delete request is in progress
NoDel == [pc |-> "idle", bulk |-> FALSE,
          req |-> [confirm |-> "", timePeriod |-> "", platform |-> ""],
          rec |-> 0, path |-> "none", unlinked |-> FALSE]

\* mutant of Rejects: the confirmation is not compared with 'DELETE'
RejectsUnconfirmedOnly(req) ==
    \/ req.timePeriod = "" \/ req.confirm = ""
    \/ req.timePeriod \notin {"1_day", "2_days", "1_week", "2_weeks", "1_month",
                              "3_months", "6_months", "1_year", "all"}
    \/ /\ req.platform # "" /\ req.platform # "all"
       /\ req.platform \notin {"google_ads", "meta_ads", "facebook_ads",
                               "instagram_ads", "other"}

\* part_005 lines 363-431: the request is answered 400
Rejects(req) ==
    \/ req.timePeriod = "" \/ req.confirm = ""
    \/ req.confirm # "DELETE"
    \/ req.timePeriod \notin {"1_day", "2_days", "1_week", "2_weeks", "1_month",
                              "3_months", "6_months", "1_year", "all"}
    \/ /\ req.platform # "" /\ req.platform # "all"
       /\ req.platform \notin {"google_ads", "meta_ads", "facebook_ads",
                               "instagram_ads", "other"}

\* the files after `if (filePath && fs.existsSync(filePath)) fs.unlinkSync(filePath)`
\* for the record rec: the file of the item that holds the record is removed
\* if it is where the record says
Unlinked(rec, path, unlinkOk) ==
    [i \in Items |-> IF unlinkOk /\ item[i].rec = rec /\ disk[i] = path
                     THEN "gone" ELSE disk[i]]

\* pdfController.js lines 946-968 (deletePdf; the same steps in
\* bulkDeletePdfs, lines 997-1015, and in deleteInvoice, part_005 lines
\* 231-243): the record is read and its file is unlinked, in one turn
deletePdf(k, unlinkOk) ==
    /\ del.pc = "idle"
    /\ k \in DOMAIN db
    /\ db[k].status # "deleted"
    /\ disk' = Unlinked(k, db[k].filePath, unlinkOk)
    /\ del' = [NoDel EXCEPT !.pc = "unlinked", !.rec = k, !.path = db[k].filePath,
                            !.unlinked = disk' # disk]
    /\ UNCHANGED <<uploadStates, run, sink, io, signals, db, item, doc, paths>>

\* part_005 lines 359-446: bulkDeleteInvoices validates the request and reads
\* the records of the filter (record k, or none when k = 0)
bulkDeleteInvoices(req, k) ==
    /\ del.pc = "idle"
    /\ k \in DOMAIN db \cup {0}
    /\ k # 0 => db[k].status # "deleted"
    /\ del' = IF Rejects(req)
              THEN [NoDel EXCEPT !.pc = "rejected", !.bulk = TRUE, !.req = req]
              ELSE IF k = 0
              THEN [NoDel EXCEPT !.pc = "done", !.bulk = TRUE, !.req = req]
              ELSE [NoDel EXCEPT !.pc = "found", !.bulk = TRUE, !.req = req,
                                 !.rec = k, !.path = db[k].filePath]
    /\ UNCHANGED <<uploadStates, run, sink, io, signals, db, disk, item, doc, paths>>

\* part_005 lines 448-462: after countDocuments, the files of the records
\* read are unlinked
unlinkFiles(unlinkOk) ==
    /\ del.pc = "found"
    /\ disk' = Unlinked(del.rec, del.path, unlinkOk)
    /\ del' = [del EXCEPT !.pc = "unlinked", !.unlinked = disk' # disk]
    /\ UNCHANGED <<uploadStates, run, sink, io, signals, db, item, doc, paths>>

\* pdfController.js line 971 (Invoice.deleteOne), part_005 lines 246 and 465
\* (findByIdAndDelete, deleteMany): the record is deleted, or the call rejects
\* and the request is answered 500
deleteRecord(ok) ==
    /\ del.pc = "unlinked"
    /\ db' = IF ok THEN [db EXCEPT ![del.rec] = Deleted] ELSE db
    /\ del' = [del EXCEPT !.pc = IF ok THEN "done" ELSE "failed"]
    /\ UNCHANGED <<uploadStates, run, sink, io, signals, disk, item, doc, paths>>

\* the save of a document whose record was deleted rejects, and so does
\* reading or renaming a file that was removed
CanSucceed(i) ==
    /\ item[i].pc \in {"parse", "moving"} => disk[i] = "temp"
    /\ item[i].pc \in {"savetext", "savedone", "failsave"} =>
           (item[i].rec # 0 => db[item[i].rec].status # "deleted")

DocAlone ==
    /\ db = << >>
    /\ disk = [i \in Items |-> "none"]
    /\ item = [i \in Items |-> NoItem]
    /\ paths = NoPaths
    /\ del = NoDel

\* pdfProcessor.js lines 44-46: the platform of the text is detected
classify ==
    /\ doc.pc = "text"
    /\ doc' = [doc EXCEPT !.pc = "classified", !.platform = detectPlatform(doc.text)]
    /\ UNCHANGED <<uploadStates, run, sink, io, signals, db, disk, item, paths, del>>

\* no item task exists
IngestIdle ==
    /\ db = << >>
    /\ disk = [i \in Items |-> "none"]
    /\ item = [i \in Items |-> NoItem]
    /\ doc = NoDoc
    /\ paths = NoPaths
    /\ del = NoDel

\* ----------------------------------------------------------- specification
\* the submissions a caller can make: up to MaxItems PDFs and archives
Submissions == UNION { [1 .. n -> Kinds] : n \in 0 .. MaxItems }

Init ==
    /\ uploadStates = [id \in Ids |-> NoState]
    /\ run = [r \in Runs |-> IdleRun]
    /\ sink = [id \in Ids |-> NoEvents]
    /\ io \in BOOLEAN
    /\ signals = 0
    /\ IngestIdle

RunStep(r) ==
    \/ \E files \in Submissions : uploadPdfs(r, files)
    \/ \E ok \in BOOLEAN, n \in 0 .. MaxItems : extractPdfsFromZip(r, ok, n)
    \/ \E k \in 1 .. MaxItems, dup \in BOOLEAN, ok \in BOOLEAN :
          processItem(r, k, dup, ok)
    \/ windowSettled(r)
    \/ delayElapsed(r)
    \/ pausePoll(r)

Signal(id) ==
    \/ cancelUpload(id)
    \/ pauseUpload(id)
    \/ resumeUpload(id)

Next ==
    \/ \E r \in Solo : RunStep(r)
    \/ \E id \in Ids : Signal(id)

Spec == Init /\ [][Next]_vars

\* two submissions running concurrently: one PDF file in the first, three in
\* the second, which spans two windows
PairSubmission(r) == [k \in 1 .. (2 * r - 1) |-> "pdf"]

PairStep(r) ==
    \/ uploadPdfs(r, PairSubmission(r))
    \/ \E k \in 1 .. 3, dup \in BOOLEAN, ok \in BOOLEAN : processItem(r, k, dup, ok)
    \/ windowSettled(r)
    \/ delayElapsed(r)
    \/ pausePoll(r)

PairNext ==
    \/ \E r \in Runs : PairStep(r)
    \/ \E id \in Ids : Signal(id)

PairSpec == Init /\ [][PairNext]_vars

\* the main variables when no submission is modelled
RunsIdle ==
    /\ uploadStates = [id \in Ids |-> NoState]
    /\ run = [r \in Runs |-> IdleRun]
    /\ sink = [id \in Ids |-> NoEvents]
    /\ io = FALSE
    /\ signals = 0

\* a record stored by an earlier run
StoredInvoice(n, h) == [fileName |-> n, filePath |-> "final", fileHash |-> h,
                        status |-> "completed", errorMessage |-> "none"]

\* the records a collection can hold over a set of names
Stored(names) == { StoredInvoice(n, h) : n \in names, h \in Digests \cup {NoHash} }

\* collections of at most two records
Collections(names) ==
    {<< >>} \cup { <<a>> : a \in Stored(names) }
            \cup { <<a, b>> : a \in Stored(names), b \in Stored(names) }

\* checkForDuplicates as a function of the candidate and of the collection:
\* one file of any name, a collection of any two records
DupInit ==
    /\ RunsIdle
    /\ db \in Collections(Names)
    /\ \E n \in Names : item = [i \in Items |-> IF i = 1 THEN NewItem(1, n, "d1") ELSE NoItem]
    /\ disk = [i \in Items |-> IF i = 1 THEN "temp" ELSE "none"]
    /\ doc = NoDoc
    /\ paths = NoPaths
    /\ del = NoDel

DupNext == \E fails \in BOOLEAN, unlinkOk \in BOOLEAN : checkForDuplicates(1, fails, unlinkOk)

DupSpec == DupInit /\ [][DupNext]_vars

\* the names of the files of the item tasks
IngestNames == { <<"a", ".", "p">>, <<"b", ".", "p">> }

\* the second file: none, or a file of the same window, or of a later batch
SecondItems == {NoItem} \cup { NewItem(b, n, d) : b \in {1, 2}, n \in IngestNames, d \in Digests }

\* one file, or two, over a collection of at most one record
IngestInit ==
    /\ RunsIdle
    /\ db \in { c \in Collections(IngestNames) : Len(c) <= 1 }
    /\ \E second \in SecondItems :
           item = [i \in Items |-> IF i = 1 THEN NewItem(1, <<"a", ".", "p">>, "d1")
                                   ELSE second]
    /\ disk = [i \in Items |-> IF item[i].pc = "absent" THEN "none" ELSE "temp"]
    /\ doc = NoDoc
    /\ paths = NoPaths
    /\ del = NoDel

ItemStep(i) ==
    \/ \E fails \in BOOLEAN, unlinkOk \in BOOLEAN : checkForDuplicates(i, fails, unlinkOk)
    \/ \E ok \in BOOLEAN : calculateFileHash(i, ok)
    \/ \E ok \in BOOLEAN, llm \in LlmReplies : processPdf(i, ok, llm)
    \/ \E ok \in BOOLEAN : storeFile(i, ok)

IngestNext == \E i \in Items : ItemStep(i)

IngestSpec == IngestInit /\ [][IngestNext]_vars

\* texts of one to three words
Texts == { Join(ws) : ws \in UNION { [1 .. n -> Words] : n \in {1, 2, 3} } }

\* detectPlatform as a function of the text
PlatformInit ==
    /\ RunsIdle
    /\ DocAlone
    /\ \E t \in Texts : doc = [NoDoc EXCEPT !.pc = "text", !.text = t]

PlatformNext == classify

PlatformSpec == PlatformInit /\ [][PlatformNext]_vars

\* the names two files are given, whatever the runs they belong to
PathInit == RunsIdle /\ IngestIdle

PathNext ==
    \E i \in Items, prefix \in Prefixes :
        \/ \E name \in IngestNames : filename(i, name, prefix)
        \/ finalFileName(i, prefix)

PathSpec == PathInit /\ [][PathNext]_vars

\* one file on its way through its task while a delete request is served
DeleteInit ==
    /\ RunsIdle
    /\ db = << >>
    /\ item = [i \in Items |-> IF i = 1 THEN NewItem(1, <<"a", ".", "p">>, "d1") ELSE NoItem]
    /\ disk = [i \in Items |-> IF i = 1 THEN "temp" ELSE "none"]
    /\ doc = NoDoc
    /\ paths = NoPaths
    /\ del = NoDel

DeleteNext ==
    \/ \E fails \in BOOLEAN, unlinkOk \in BOOLEAN : checkForDuplicates(1, fails, unlinkOk)
    \/ \E ok \in BOOLEAN : calculateFileHash(1, ok)
    \/ \E ok \in BOOLEAN, llm \in LlmReplies :
           (ok => CanSucceed(1)) /\ processPdf(1, ok, llm)
    \/ \E ok \in BOOLEAN : (ok => CanSucceed(1)) /\ storeFile(1, ok)
    \/ \E k \in 1 .. 2, unlinkOk \in BOOLEAN : deletePdf(k, unlinkOk)
    \/ \E req \in Requests, k \in 0 .. 2 : bulkDeleteInvoices(req, k)
    \/ \E unlinkOk \in BOOLEAN : unlinkFiles(unlinkOk)
    \/ \E ok \in BOOLEAN : deleteRecord(ok)

DeleteSpec == DeleteInit /\ [][DeleteNext]_vars

\* the cost per click of every campaign line item
CpcInit ==
    /\ RunsIdle
    /\ DocAlone
    /\ \E l \in LineItems : doc = [NoDoc EXCEPT !.pc = "line", !.line = l]

CpcSpec == CpcInit /\ [][priceCampaign]_vars

\* extractInvoiceData and the post-processing as functions of the reply of
\* the model and of what the fallback finds in the text
FieldsInit ==
    /\ RunsIdle
    /\ DocAlone
    /\ \/ \E p \in ParsedReplies, pf \in {"google_ads", "other"} :
              doc = [NoDoc EXCEPT !.pc = "reply", !.platform = pf,
                                  !.reply = "json", !.parsed = p]
       \/ \E r \in LlmReplies \ {"json"}, pf \in {"google_ads", "other"} :
              \E b \in BasicResults(pf) :
                  doc = [NoDoc EXCEPT !.pc = "reply", !.platform = pf,
                                      !.reply = r, !.basic = b]

FieldsNext == extract \/ reconcile

FieldsSpec == FieldsInit /\ [][FieldsNext]_vars

\* ------------------------------------------------------------- properties
\* items whose task has been started
Started(rs) == { k \in DOMAIN rs.started : rs.started[k] > 0 }

\* items whose task is running
InFlight(rs) == { k \in DOMAIN rs.task : rs.task[k] \in InFlightPcs }

\* items whose task has settled
SettledItems(rs) == { k \in DOMAIN rs.task : rs.task[k] \in Settled }

\* the window (0, 1, ...) item k belongs to
WindowOf(k) == (k - 1) \div batchSize

\* the handler of run r is between its first and its last turn
RunLive(id) == id \in Runs /\ run[id].pc \notin {"idle", "done"}

\* successful + failed + duplicates of a summary
Accounted(sm) == sm.successful + sm.failed + sm.duplicates

\* C1: at no time are more than batchSize items of a run in flight, and an
\* item of a window has started only if every item of every earlier window
\* has settled.
C1_BoundedWindows ==
    \A r \in Runs :
        /\ Cardinality(InFlight(run[r])) <= batchSize
        /\ \A k \in Started(run[r]) : \A j \in DOMAIN run[r].task :
               WindowOf(j) < WindowOf(k) => run[r].task[j] \in Settled

\* C1 witness: the second window is in flight with batchSize items, after a
\* first window whose items settled with different outcomes
C1_Witness ==
    \E r \in Runs :
        /\ run[r].i = batchSize
        /\ Cardinality(InFlight(run[r])) = batchSize
        /\ run[r].task[1] # run[r].task[2]

\* C2: a run that has computed its terminal summary accounts for every item:
\* successful + failed + duplicates = totalFiles, and the result list holds
\* one outcome per item (the entries of failed archives set aside).
C2_SummaryAccountsForEveryItem ==
    \A r \in Runs :
        run[r].summary.made =>
            /\ Accounted(run[r].summary) = run[r].totalFiles
            /\ Len(run[r].results) - Count(run[r].results, "error") = run[r].totalFiles

\* every started item has settled and is counted in the summary
SummaryCountsStarted(rs) ==
    rs.summary.made =>
        /\ Started(rs) \subseteq SettledItems(rs)
        /\ Accounted(rs.summary) = Cardinality(Started(rs))

\* C3: once the cancelled flag of a run is set it stays set as long as the
\* run's state exists, no item is started afterwards, and the summary counts
\* every item that was started.
C3_CancelIsTerminal ==
    /\ [](\A r \in Runs : SummaryCountsStarted(run[r]))
    /\ [][\A r \in Runs :
            IsCancelled(uploadStates[r]) =>
                /\ uploadStates'[r].live => uploadStates'[r].isCancelled
                /\ Started(run'[r]) = Started(run[r])]_vars

\* C3 witness: a run cancelled in mid-run has ended; the items started before
\* the signal are counted and the later windows were never started
C3_Witness ==
    \E r \in Runs :
        /\ run[r].pc = "done"
        /\ sink[r]["cancelled"] > 0
        /\ run[r].summary.made
        /\ run[r].summary.successful > 0
        /\ \E k \in DOMAIN run[r].started : run[r].started[k] = 0

\* C4: the first turn of a run that waits in the pause loop with the cancelled
\* flag set ends the run: no item is started, and the summary counts the items
\* of the windows dispatched before.
C4_CancelDuringPause ==
    [][\A r \in Runs :
         (/\ run[r].pc = "pausewait"
          /\ IsCancelled(uploadStates[r])
          /\ run'[r] # run[r])
         => /\ run'[r].pc = "done"
            /\ Started(run'[r]) = Started(run[r])
            /\ run'[r].summary.made
            /\ SummaryCountsStarted(run'[r])
            /\ Accounted(run'[r].summary) = run[r].i]_vars

\* C4 witness: a run that waited in the pause loop and was never resumed has
\* ended on cancel, one window counted and the rest never started
C4_Witness ==
    \E r \in Runs :
        /\ run[r].pc = "done"
        /\ run[r].waited
        /\ sink[r]["paused"] > 0 /\ sink[r]["resumed"] = 0 /\ sink[r]["cancelled"] > 0
        /\ Accounted(run[r].summary) = batchSize
        /\ \E k \in DOMAIN run[r].started : run[r].started[k] = 0

\* C5: no item is started in a step taken while the paused flag is set; the
\* first turn after the pause loop finds the flag cleared (and no cancel)
\* dispatches the next window; started items are always the first windows of
\* allFiles, each started once; and a run that ends without cancel has started
\* every item exactly once.
C5_PauseHoldsDispatch ==
    /\ [](\A r \in Runs : \A k \in DOMAIN run[r].started :
            /\ run[r].started[k] <= 1
            /\ (run[r].started[k] = 1) <=>
                   (run[r].pc \in {"window", "delay", "pausewait", "done"}
                    /\ k <= run[r].i + (IF run[r].pc \in {"window", "delay"}
                                        THEN batchSize ELSE 0)))
    /\ [][\A r \in Runs :
            /\ IsPaused(uploadStates[r]) => Started(run'[r]) = Started(run[r])
            /\ (/\ run[r].pc = "pausewait"
                /\ ~IsPaused(uploadStates[r])
                /\ ~IsCancelled(uploadStates[r])
                /\ run'[r] # run[r])
               => /\ run'[r].pc = "window"
                  /\ Window(run'[r]) # {}
                  /\ Window(run'[r]) \subseteq InFlight(run'[r])
            /\ (/\ run[r].pc \notin {"idle", "done"}
                /\ run'[r].pc = "done"
                /\ run'[r].summary.made
                /\ ~IsCancelled(uploadStates[r]))
               => \A k \in DOMAIN run'[r].started : run'[r].started[k] = 1]_vars

\* C5 witness: a run that waited in the pause loop, was resumed and never
\* cancelled has ended with every item of its windows started once
C5_Witness ==
    \E r \in Runs :
        /\ run[r].pc = "done"
        /\ run[r].waited
        /\ sink[r]["resumed"] > 0 /\ sink[r]["cancelled"] = 0
        /\ Len(run[r].allFiles) > batchSize
        /\ \A k \in DOMAIN run[r].started : run[r].started[k] = 1

\* C6: a run reports completion (upload:complete) only when its last window
\* has settled and no cancel was signalled; a cancelled run does not report
\* completion.
C6_CompleteOnlyWithoutCancel ==
    \A r \in Runs :
        sink[r]["complete"] > 0 =>
            /\ sink[r]["cancelled"] = 0
            /\ SettledItems(run[r]) = DOMAIN run[r].task

\* the caller of run r has been sent the response that carries the upload id
Responded(r) == run[r].res = "200"

\* the upload id of run r has left the server, in the response or in
\* upload:start
IdKnown(r) == Responded(r) \/ sink[r]["start"] > 0

C8_EveryRunResponds ==
    \A r \in Runs : run[r].pc = "done" => run[r].res # "none"

\* C9: a run that has ended after an archive failed to expand has sent its
\* summary, and the summary counts the archive among the failed items.
C9_FailedArchiveCounted ==
    \A r \in Runs :
        (run[r].pc = "done" /\ Count(run[r].results, "error") > 0) =>
            /\ run[r].summary.made
            /\ run[r].res = "200"
            /\ run[r].summary.failed =
                   Count(run[r].results, "rejected") + Count(run[r].results, "error")

\* C10: a cancel, pause or resume request changes neither the state entry nor
\* the notifications of an upload id that is unknown or whose run has ended.
C10_SignalToEndedRunIsNoOp ==
    [][signals' # signals =>
         \A id \in Ids :
             ~RunLive(id) =>
                 /\ uploadStates'[id] = uploadStates[id]
                 /\ sink'[id] = sink[id]]_vars

\* the name with every letter in lower case
LowerName(s) == [k \in DOMAIN s |-> Lower(s[k])]

\* the name ends in an extension
HasExt(s) == nameWithoutExt(s) # s

\* the verdict the four-step order gives a candidate over a collection: the
\* first of digest, exact name, stem (in either case) with any extension, name
\* in either case
FirstHit(name, digest, records) ==
    IF \E k \in DOMAIN records : records[k].fileHash = digest THEN "content"
    ELSE IF \E k \in DOMAIN records : records[k].fileName = name THEN "filename"
    ELSE IF \E k \in DOMAIN records :
                /\ HasExt(records[k].fileName)
                /\ LowerName(nameWithoutExt(records[k].fileName))
                       = LowerName(nameWithoutExt(name))
         THEN "similar_name"
    ELSE IF \E k \in DOMAIN records : LowerName(records[k].fileName) = LowerName(name)
         THEN "case_insensitive"
    ELSE "none"

\* C11: the verdict of the duplicate check of a candidate over a collection
\* is the first hit of: equal digest ('content'), equal name ('filename'),
\* equal stem with any extension ('similar_name'), equal name up to case
\* ('case_insensitive'), and not-duplicate when none hits.
C11_VerdictIsFirstHit ==
    \A i \in Items :
        (item[i].pc \notin {"absent", "lookup"} /\ item[i].checkError # "storage")
            => item[i].verdict = FirstHit(item[i].name, item[i].digest, db)

\* records of the collection that carry digest d
WithDigest(d) == { k \in DOMAIN db : db[k].fileHash = d }

\* item j is a file of a later batch with the bytes of item i, which was
\* ingested successfully, and its task has settled
Resubmitted(i, j) ==
    /\ item[i].outcome = "fulfilled"
    /\ item[j].batch > item[i].batch
    /\ item[j].digest = item[i].digest
    /\ item[j].pc = "settled"

\* item j is reported as a duplicate by content, its temporary file is
\* deleted, and one record carries its digest
ContentDuplicate(j) ==
    /\ item[j].outcome = "duplicate"
    /\ item[j].verdict = "content"
    /\ disk[j] = "gone"
    /\ Cardinality(WithDigest(item[j].digest)) = 1

C13_LookupFailureFailsOpen ==
    /\ [](\A i \in Items :
            item[i].checkError = "storage" =>
                /\ item[i].verdict = "none"
                /\ item[i].outcome # "duplicate"
                /\ item[i].pc # "lookup")
    /\ [][\A i \in Items :
            (item[i].pc = "lookup" /\ item'[i].checkError = "storage") =>
                /\ item'[i].pc = "hashing"
                /\ item'[i].outcome = "none"
                /\ disk'[i] = "temp"
                /\ db' = db]_vars

\* C13 witness: a file whose digest is already in the store was ingested
\* after a failed lookup, and two records now carry the digest
C13_Witness ==
    \E i \in Items :
        /\ item[i].checkError = "storage"
        /\ item[i].outcome = "fulfilled"
        /\ item[i].data # "none"
        /\ Cardinality(WithDigest(item[i].digest)) = 2

\* C14: the file of an item is in permanent storage only when the record of
\* the item has been stored with status completed, and an item that has
\* settled as failed or as duplicate has no file in permanent storage.
C14_MovedOnlyWhenPersisted ==
    \A i \in Items :
        /\ disk[i] = "final" =>
               /\ item[i].rec # 0
               /\ db[item[i].rec].status = "completed"
        /\ (item[i].pc = "settled" /\ item[i].outcome \in {"rejected", "duplicate"})
               => disk[i] # "final"

\* C16: the record created for an item agrees with the outcome reported for
\* it: completed when the item is reported successful, failed with the message
\* of the error when it is reported failed, and never left in processing once
\* the item has settled.
C16_RecordMatchesOutcome ==
    \A i \in Items :
        (item[i].pc = "settled" /\ item[i].rec # 0) =>
            LET rec == db[item[i].rec]
            IN  /\ item[i].outcome = "fulfilled" => rec.status = "completed"
                /\ item[i].outcome = "rejected" =>
                       (rec.status = "failed" /\ rec.errorMessage = item[i].err)
                /\ rec.status # "processing"

\* C18: the turn that receives the reply of the language model never fails
\* the item, whatever the reply: the data is the reply or the fallback, the
\* document goes on to its final save, and no item ever fails with an error of
\* the model.
C18_ExtractionNeverFailsItem ==
    /\ [](\A i \in Items : item[i].err # "llm")
    /\ [][\A i \in Items :
            (item[i].pc = "extract" /\ item'[i] # item[i]) =>
                /\ item'[i].pc = "savedone"
                /\ item'[i].data \in {"llm", "fallback"}
                /\ item'[i].err = "none"
                /\ db' = db /\ disk'[i] = disk[i]]_vars

\* C18 witness: an item whose data came from the fallback was ingested, and
\* another one was failed by the save that follows the extraction
C18_Witness ==
    \E i \in Items, j \in Items :
        /\ item[i].data = "fallback" /\ item[i].outcome = "fulfilled"
        /\ item[j].data = "fallback" /\ item[j].outcome = "rejected"
        /\ item[j].err = "save"

\* the temporary files of a run in the uploads directory: the uploaded files
\* the loop has not visited (lines 271-272), the files of the items whose
\* task has not settled (a settled task has deleted or renamed its file,
\* lines 413, 454, 498), and what a failed archive left behind
TempFilesLeft(rs) ==
    Len(rs.files)
    + Cardinality({ k \in DOMAIN rs.task : rs.task[k] \notin Settled })
    + (IF rs.orphans THEN 1 ELSE 0)

\* C15: when the handler of a run has ended (completed, cancelled, rejected
\* after expansion or errored), no temporary file of the run is left.
C15_NoTempFileAtEnd ==
    \A r \in Runs : run[r].pc = "done" => TempFilesLeft(run[r]) = 0

\* C17: a submission of zero files is answered 400 in the turn that receives
\* it and changes nothing else: no run state, no notification, no record, no
\* file; every other submission creates its run state in that turn.
C17_EmptySubmissionRejected ==
    [][\A r \in Runs :
         /\ (run[r].pc = "idle" /\ run'[r].pc = "done") =>
                /\ run'[r] = [run[r] EXCEPT !.pc = "done", !.res = "400"]
                /\ uploadStates' = uploadStates
                /\ sink' = sink
                /\ db' = db /\ disk' = disk
         /\ (run[r].pc = "idle" /\ run'[r].pc \notin {"idle", "done"}) =>
                /\ uploadStates'[r].live
                /\ Len(run'[r].files) + Len(run'[r].allFiles) > 0]_vars

\* C17 witness: an empty submission has been answered 400 with a notification
\* sink attached, and later signals found no run state
C17_Witness ==
    \E r \in Runs :
        /\ io /\ signals > 0
        /\ run[r].pc = "done" /\ run[r].res = "400"
        /\ ~uploadStates[r].live
        /\ sink[r] = NoEvents
        /\ TempFilesLeft(run[r]) = 0

\* the expansion of run r is over
Expanded(rs) == rs.pc \notin {"idle", "expanding"}

\* C19: the percentage carried by the progress notifications of a run never
\* decreases and stays within 0..100, the processed count never exceeds the
\* total, and when a run with a notification sink ends with its summary and
\* without cancel, the last percentage sent is 100.
C19_ProgressMonotone ==
    /\ [](\A r \in Runs :
            /\ run[r].progress \in 0 .. 100
            /\ Expanded(run[r]) => run[r].processedCount <= run[r].totalFiles
            /\ uploadStates[r].processedCount <= uploadStates[r].totalFiles
            /\ (io /\ run[r].summary.made /\ sink[r]["cancelled"] = 0)
                   => run[r].progress = 100)
    /\ [][\A r \in Runs : run'[r].progress >= run[r].progress]_vars

\* C19 witness: a run of three items, one of each outcome, has sent 33, 67
\* and 100 and ended
C19_Witness ==
    \E r \in Runs :
        /\ io /\ run[r].pc = "done" /\ run[r].summary.made
        /\ run[r].totalFiles = 3
        /\ run[r].progress = 100
        /\ run[r].summary.successful = 1 /\ run[r].summary.failed = 1
        /\ run[r].summary.duplicates = 1

\* C20 (as stated): once the expansion is over, every submitted file has been
\* visited, so that totalFiles, the number of collected items, counts every
\* directly submitted PDF and every PDF of every archive; and totalFiles does
\* not change afterwards.
C20_TotalCountsEverySubmittedFile ==
    /\ [](\A r \in Runs :
            Expanded(run[r]) =>
                /\ run[r].files = << >>
                /\ run[r].totalFiles = Len(run[r].allFiles))
    /\ [][\A r \in Runs :
            Expanded(run[r]) => run'[r].totalFiles = run[r].totalFiles]_vars

\* C20 (amended): once the expansion is over, totalFiles is the number of
\* collected items; in every turn of the expansion the collection grows by
\* the direct PDFs the turn visits, plus what the archive of the turn yields,
\* which is nothing when it fails; the loop stops only at an archive or, with
\* files left unvisited, on the cancelled flag; and neither totalFiles nor
\* the collection changes afterwards.
C20_TotalCountsVisitedFiles ==
    /\ [](\A r \in Runs :
            Expanded(run[r]) =>
                /\ run[r].totalFiles = Len(run[r].allFiles)
                /\ uploadStates[r].live => uploadStates[r].totalFiles = run[r].totalFiles)
    /\ [][\A r \in Runs :
            LET direct == Count(run[r].files, "pdf") - Count(run'[r].files, "pdf")
                grown == Len(run'[r].allFiles) - Len(run[r].allFiles)
            IN  /\ Expanded(run[r]) =>
                       /\ run'[r].totalFiles = run[r].totalFiles
                       /\ run'[r].allFiles = run[r].allFiles
                /\ (run[r].pc = "expanding" /\ run'[r] # run[r]) =>
                       /\ grown >= direct
                       /\ Len(run'[r].results) > Len(run[r].results) => grown = direct
                       /\ (Expanded(run'[r]) /\ run'[r].files # << >>)
                              => IsCancelled(uploadStates[r])
                /\ (run[r].pc = "idle" /\ run'[r].files # << >>) =>
                       /\ run'[r].pc = "expanding"
                       /\ Head(run'[r].files) = "zip"]_vars

\* C20 witness: a run of one direct PDF, one archive that yielded two PDFs and
\* one archive that failed has ended with totalFiles 3
C20_Witness ==
    \E r \in Runs :
        /\ run[r].pc = "done" /\ run[r].summary.made
        /\ run[r].files = << >>
        /\ run[r].totalFiles = 3
        /\ Count(run[r].results, "error") = 1
        /\ Len(run[r].results) = 4

\* the rules of the platform classification, in priority order
PlatformRules == <<"google_ads", "meta_ads", "facebook_ads", "instagram_ads">>

\* rule k of the classification matches the text
RuleMatches(k, text) ==
    CASE k = 1 -> Includes(text, GoogleAds) \/ Includes(text, GoogleInvoice)
      [] k = 2 -> Includes(text, MetaWord)
                    /\ (Includes(text, AdsWord) \/ Includes(text, Advertising))
      [] k = 3 -> Includes(text, FacebookAds)
      [] OTHER -> Includes(text, InstagramAds)

\* C21: the platform of a text is the one of the first rule, in priority
\* order, that matches the lower-cased text, and other when none matches; a
\* text that contains both 'Google Ads' and 'Meta' is google_ads.
C21_FirstMatchingRule ==
    doc.pc = "classified" =>
        LET hits == { k \in DOMAIN PlatformRules : RuleMatches(k, doc.text) }
        IN  /\ hits = {} => doc.platform = "other"
            /\ hits # {} =>
                   doc.platform = PlatformRules[CHOOSE k \in hits : \A j \in hits : k <= j]
            /\ (Includes(doc.text, GoogleAds) /\ Includes(doc.text, MetaWord))
                   => doc.platform = "google_ads"

\* C21 witness: the text 'Meta Google Ads' has been classified google_ads
C21_Witness ==
    /\ doc.pc = "classified"
    /\ doc.text = Join(<< <<"M", "e", "t", "a">>, <<"G", "o", "o", "g", "l", "e">>,
                          <<"A", "d", "s">> >>)
    /\ doc.platform = "google_ads"

\* the amount is missing from the extracted data
Missing(val) == val.kind \in {"absent", "null"}

\* C22: when the extracted data has totalAmount and taxAmount (0 included)
\* and no subtotal, post-processing gives subtotal = totalAmount - taxAmount;
\* when it has subtotal and taxAmount and no totalAmount, it gives
\* totalAmount = subtotal + taxAmount.
C22_DerivedAmounts ==
    doc.pc = "posted" =>
        /\ (/\ Missing(doc.data.subtotal)
            /\ doc.data.totalAmount.kind = "number"
            /\ doc.data.taxAmount.kind = "number")
           => doc.out.subtotal = Num(doc.data.totalAmount.v - doc.data.taxAmount.v)
        /\ (/\ Missing(doc.data.totalAmount)
            /\ doc.data.subtotal.kind = "number"
            /\ doc.data.taxAmount.kind = "number")
           => doc.out.totalAmount = Num(doc.data.subtotal.v + doc.data.taxAmount.v)

\* C29: on every path of the extraction the returned invoiceDate and
\* billing-period date are dates or null and the returned amounts are numbers
\* or null: no field is a raw string.
C29_FieldsArePostProcessed ==
    doc.pc \in {"extracted", "posted"} =>
        /\ doc.data.invoiceDate.kind \in {"date", "null"}
        /\ doc.data.periodStart.kind \in {"date", "null", "absent"}
        /\ \A f \in {"subtotal", "taxAmount", "totalAmount"} :
               doc.data[f].kind \in {"number", "null"}

\* C23: once a run has ended, whatever the way (completed, cancelled,
\* answered 400 because expansion left no PDF, aborted by an error),
\* global.uploadStates has no entry for its upload id.
C23_EndedRunHasNoEntry ==
    \A r \in Runs : run[r].pc = "done" => ~uploadStates[r].live

\* the record has reached a final status
Final(rec) == rec.status \in {"completed", "failed"}

\* C24: once the status of a record is completed or failed, no step of the
\* ingestion changes any of its fields, and no step removes it.
C24_FinalRecordImmutable ==
    [][\A k \in DOMAIN db :
           Final(db[k]) => k \in DOMAIN db' /\ db'[k] = db[k]]_vars

\* C24 (amended): once the status of a record is completed or failed, no step
\* of the ingestion removes it or changes its status, its error message or
\* its file name; the storing step may still set its filePath and fileHash.
C24_FinalRecordKeepsStatus ==
    [][\A k \in DOMAIN db :
           Final(db[k]) =>
               /\ k \in DOMAIN db'
               /\ db'[k].status = db[k].status
               /\ db'[k].errorMessage = db[k].errorMessage
               /\ db'[k].fileName = db[k].fileName]_vars

\* an item was stored: its completed record has received the permanent path
\* and the digest of the file
C24_Witness ==
    \E i \in Items :
        /\ item[i].outcome = "fulfilled"
        /\ item[i].rec \in DOMAIN db
        /\ db[item[i].rec].status = "completed"
        /\ db[item[i].rec].filePath = "final"
        /\ db[item[i].rec].fileHash = item[i].digest

\* C25: the step that judges an item a duplicate leaves the records as they
\* are, deletes the temporary file of the item and settles the item with
\* status duplicate.
C25_DuplicateLeavesStorage ==
    [][\A i \in Items :
           (item[i].verdict = "none" /\ item'[i].verdict # "none") =>
               /\ db' = db
               /\ disk'[i] = "gone"
               /\ item'[i].outcome = "duplicate"]_vars

\* C26: no increment of processedCount is lost: at every moment, and so when
\* a window has settled, processedCount is the number of the items that have
\* settled so far, and the run state carries the same count while it exists.
C26_ProcessedCountsSettled ==
    \A r \in Runs :
        /\ run[r].processedCount = Cardinality(SettledItems(run[r]))
        /\ (uploadStates[r].live /\ run[r].pc # "idle")
               => uploadStates[r].processedCount = run[r].processedCount

\* a window of two items has settled, one of them rejected, and both were
\* counted
C26_Witness ==
    \E r \in Runs :
        /\ run[r].pc \in {"delay", "done"}
        /\ Len(run[r].results) >= batchSize
        /\ Count(run[r].results, "rejected") >= 1
        /\ Count(run[r].results, "fulfilled") >= 1
        /\ run[r].processedCount = Len(run[r].results)

\* C30: a cancel, pause or resume request changes the entry of one upload id
\* at most: the flags and the counts of every other run, its locals and its
\* notifications are left as they were, so that the other run goes on being
\* dispatched as before.
C30_SignalTouchesOneRun ==
    [][signals' # signals =>
         \E a \in Ids :
             \A b \in Ids \ {a} :
                 /\ uploadStates'[b] = uploadStates[b]
                 /\ sink'[b] = sink[b]
                 /\ b \in Runs => run'[b] = run[b]]_vars

\* two runs are in progress; one has been cancelled and the other one,
\* neither cancelled nor paused, has its window dispatched
C30_Witness ==
    \E a \in Runs, b \in Runs :
        /\ a # b
        /\ uploadStates[a].live /\ uploadStates[a].isCancelled
        /\ uploadStates[b].live
        /\ ~uploadStates[b].isCancelled /\ ~uploadStates[b].isPaused
        /\ run[b].pc = "window"

\* C27: no two items are given the same temporary name, and no two items
\* the same permanent name, even when they have the same original name.
C27_PathsDistinct ==
    \A i \in Items, j \in Items :
        i # j =>
            /\ paths[i].tmp # NoPath => paths[i].tmp # paths[j].tmp
            /\ paths[i].final # NoPath => paths[i].final # paths[j].final

\* C28: a failure to delete a temporary file never decides the outcome of an
\* item: no item settles with the error of an unlink, and an item judged a
\* duplicate is reported as duplicate whether or not its file could be
\* deleted.
C28_UnlinkFailureIsHarmless ==
    \A i \in Items :
        /\ item[i].err # "unlink"
        /\ (item[i].pc = "settled" /\ item[i].verdict # "none")
               => item[i].outcome = "duplicate"

\* the same handler without a socket server: it has emitted nothing
Detached(c) == [c EXCEPT !.io = FALSE, !.sk = NoEvents, !.rs.progress = 0]

\* C31: from every state a run can be in, each turn of the handler taken
\* without a socket server gives the state the same turn gives with one,
\* notifications aside: the item outcomes, the counts, the run state entry,
\* the summary and the response are the same.
C31_SinkDoesNotInterfere ==
    \A r \in Solo :
        LET c == Ctx(r)
            d == Detached(c)
        IN  /\ run[r].pc = "idle" =>
                   \A files \in Submissions \ {<< >>} :
                       Detached(SubmitTurn(c, files)) = SubmitTurn(d, files)
            /\ run[r].pc = "expanding" =>
                   \A ok \in BOOLEAN, n \in 0 .. MaxItems :
                       Detached(ZipTurn(c, ok, n)) = ZipTurn(d, ok, n)
            /\ run[r].pc = "window" =>
                   /\ \A k \in InFlight(run[r]), dup \in BOOLEAN, ok \in BOOLEAN :
                          Detached(ItemTurn(c, k, dup, ok)) = ItemTurn(d, k, dup, ok)
                   /\ AllSettled(run[r]) => Detached(WindowTurn(c)) = WindowTurn(d)
            /\ run[r].pc = "delay" => Detached(LoopNext(c)) = LoopNext(d)
            /\ run[r].pc = "pausewait" => Detached(PauseCheck(c)) = PauseCheck(d)

\* a run with a socket server attached has ended after it has sent progress
\* notifications and upload:complete for items of both outcomes
C31_Witness ==
    \E r \in Solo :
        /\ io
        /\ run[r].pc = "done"
        /\ sink[r]["complete"] = 1
        /\ sink[r]["progress"] > 2
        /\ run[r].summary.successful >= 1
        /\ run[r].summary.failed >= 1

\* items i and j have the same bytes and both were ingested
BothAccepted(i, j) ==
    /\ i # j
    /\ item[i].digest = item[j].digest
    /\ item[i].outcome = "fulfilled"
    /\ item[j].outcome = "fulfilled"

\* C32: nothing excludes two items with identical bytes from both being
\* accepted: whenever both were ingested under different names, two records
\* carry their digest.
C32_IdenticalItemsBothStored ==
    \A i \in Items, j \in Items :
        (BothAccepted(i, j) /\ item[i].name # item[j].name)
            => Cardinality(WithDigest(item[i].digest)) >= 2

\* two files with identical bytes in the same window, over an empty
\* collection and without any failed lookup, were both accepted and the two
\* records carry the same digest
C32_Witness ==
    \E i \in Items, j \in Items :
        /\ BothAccepted(i, j)
        /\ item[i].batch = item[j].batch
        /\ item[i].checkError = "none" /\ item[j].checkError = "none"
        /\ Len(db) = 2
        /\ db[1].fileHash = item[i].digest
        /\ db[2].fileHash = item[i].digest

\* the field is a positive number
Positive(val) == val.kind = "number" /\ val.v > 0

\* C33: the cost per click of a campaign line item is amount / clicks rounded
\* to two decimals when amount and clicks are both positive, and null in
\* every other case, whether the line item comes from the parsed reply or
\* from the patterns.
C33_CostPerClick ==
    doc.pc = "priced" =>
        doc.line.cpc = IF Positive(doc.line.amount) /\ Positive(doc.line.clicks)
                       THEN Num(Round(doc.line.amount.v, doc.line.clicks.v))
                       ELSE Null

\* C34: the check made before a window and the start of its tasks are one
\* turn, so a task never finds the run cancelled or paused when it starts: no
\* task waits on the pause flag, and a task is rejected only by a failure of
\* its own processing, also when cancel or pause arrive while the window is
\* in flight.
C34_DispatchedItemsAreProcessed ==
    [][\A r \in Runs :
           \A k \in DOMAIN run'[r].task :
               /\ run'[r].task[k] # "waiting"
               /\ (run'[r].task[k] = "rejected" /\ k \in DOMAIN run[r].task
                      /\ run[r].task[k] # "rejected")
                  => run[r].task[k] = "processing"]_vars

\* a pause has arrived while a window is in flight: one of its tasks has
\* settled as fulfilled since, another one is still being checked
C34_Witness ==
    \E r \in Runs :
        /\ run[r].pc = "window"
        /\ uploadStates[r].live /\ uploadStates[r].isPaused
        /\ \E k \in Window(run[r]), j \in Window(run[r]) :
               /\ run[r].task[k] = "fulfilled"
               /\ run[r].task[j] = "checking"

\* every task has settled
AllItemsSettled == \A i \in Items : item[i].pc \in {"absent", "settled"}

\* C35: when the tasks have all settled, the record of every item that is
\* left completed carries the digest of the item's file and the path of a
\* file that is in permanent storage.
C35_CompletedRecordNamesItsFile ==
    AllItemsSettled =>
        \A i \in Items :
            (item[i].rec \in DOMAIN db /\ db[item[i].rec].status = "completed") =>
                /\ db[item[i].rec].fileHash = item[i].digest
                /\ db[item[i].rec].filePath = "final"
                /\ disk[i] = "final"

\* pdfProcessor.js lines 52-54: the record is saved with the fields as
\* extractInvoiceData returned them, before the controller post-processes
\* the result
StoredFields == doc.data

\* pdfController.js line 549: the fields reported in the batch result
ReportedFields == doc.out

\* C36: the extracted fields stored in the record of a successful item are
\* the fields reported for it in the batch result, derived subtotal and
\* totalAmount included.
C36_StoredEqualsReported ==
    doc.pc = "posted" =>
        /\ StoredFields.subtotal = ReportedFields.subtotal
        /\ StoredFields.totalAmount = ReportedFields.totalAmount
        /\ StoredFields.taxAmount = ReportedFields.taxAmount

\* item i failed and left a record in status failed; item j is a file of a
\* later batch with the same name, and its task has settled
AfterFailure(i, j) ==
    /\ item[i].outcome = "rejected"
    /\ item[i].rec \in DOMAIN db
    /\ db[item[i].rec].status = "failed"
    /\ item[j].batch > item[i].batch
    /\ item[j].name = item[i].name
    /\ item[j].pc = "settled"

\* C37 (as stated): once an item has failed and left its record, every later
\* file with the same name is reported as a duplicate of type filename and
\* is not ingested.
C37_FailedRecordBlocksName ==
    \A i \in Items, j \in Items :
        AfterFailure(i, j) =>
            /\ item[j].outcome = "duplicate"
            /\ item[j].verdict = "filename"
            /\ item[j].rec = 0

\* C37 (amended): once an item has failed and left its record, a later file
\* with the same name whose lookups do not fail is not ingested: it is judged
\* a duplicate, of type filename, or of type content when a stored record
\* carries its digest, and it is reported as duplicate, or as failed when its
\* temporary file cannot be deleted.
C37_FailedRecordBlocksNameUnlessFailOpen ==
    \A i \in Items, j \in Items :
        (AfterFailure(i, j) /\ item[j].checkError = "none") =>
            /\ item[j].rec = 0
            /\ item[j].verdict \in {"filename", "content"}
            /\ item[j].verdict = "content" => WithDigest(item[j].digest) # {}
            /\ \/ item[j].outcome = "duplicate"
               \/ item[j].outcome = "rejected" /\ item[j].err = "unlink"

\* a file failed and left a failed record without a stored file; the same
\* name submitted in a later batch was reported as a duplicate by file name
C37_Witness ==
    /\ AfterFailure(1, 2)
    /\ disk[1] = "gone"
    /\ item[2].outcome = "duplicate"
    /\ item[2].verdict = "filename"
    /\ disk[2] = "gone"

\* some record has the name of the candidate up to letter case, and no record
\* has its digest or its exact name
DiffersByCaseOnly(name, digest, records) ==
    /\ \E k \in DOMAIN records :
           /\ records[k].fileName # name
           /\ LowerName(records[k].fileName) = LowerName(name)
    /\ \A k \in DOMAIN records :
           records[k].fileHash # digest /\ records[k].fileName # name

\* C40: the verdict case_insensitive is given to candidates without an
\* extension only; a candidate with an extension whose name differs from the
\* name of a record by letter case only is judged similar_name, by the stem
\* lookup.
C40_CaseInsensitiveOnlyWithoutExtension ==
    \A i \in Items :
        /\ item[i].verdict = "case_insensitive" => ~HasExt(item[i].name)
        /\ (/\ item[i].pc \notin {"absent", "lookup"}
            /\ item[i].checkError = "none"
            /\ HasExt(item[i].name)
            /\ DiffersByCaseOnly(item[i].name, item[i].digest, db))
           => item[i].verdict = "similar_name"

\* the task of the file has settled and the delete request was answered
DeleteAnswered ==
    /\ item[1].pc = "settled"
    /\ del.pc \in {"done", "failed"}
    /\ del.rec # 0

\* C38: when a delete request and the task of an in-flight file have both
\* ended, in whatever order their steps ran, no file is left in permanent
\* storage whose record was deleted, and no record is left whose file the
\* delete request removed.
C38_DeleteKeepsFilesAndRecordsTogether ==
    DeleteAnswered =>
        /\ ~(disk[1] = "final" /\ item[1].rec # 0 /\ db[item[1].rec].status = "deleted")
        /\ ~(del.unlinked /\ db[del.rec].status # "deleted")

\* the request is one the endpoint is meant to serve: confirmed with 'DELETE',
\* an accepted time period, and a platform that is valid or 'all' when given
Acceptable(req) ==
    /\ req.confirm = "DELETE"
    /\ req.timePeriod \in {"1_day", "2_days", "1_week", "2_weeks", "1_month",
                           "3_months", "6_months", "1_year", "all"}
    /\ req.platform # "" =>
           req.platform \in {"all", "google_ads", "meta_ads", "facebook_ads",
                             "instagram_ads", "other"}

\* C39: every step that bulkDeleteInvoices takes for a request that is not
\* confirmed with 'DELETE', or names no accepted time period, or names a
\* platform that is neither valid nor 'all', is the rejection of that request,
\* and it leaves the records and the files as they were.
C39_RejectedRequestDeletesNothing ==
    [][(del' # del /\ del'.bulk /\ ~Acceptable(del'.req)) =>
           (del'.pc = "rejected" /\ db' = db /\ disk' = disk)]_vars

\* a request confirmed with 'delete' was rejected while a completed record and
\* its file in permanent storage were there to delete
C39_Witness ==
    /\ del.pc = "rejected"
    /\ del.req.confirm = "delete"
    /\ del.req.timePeriod = "all"
    /\ item[1].rec # 0
    /\ db[item[1].rec].status = "completed"
    /\ disk[1] = "final"

====
